---- MODULE Spec2Model ----
(***************************************************************************)
(* weak_nlp.classification.CNLM: the classification noisy label matrix.    *)
(* quality_metrics, quantity_metrics and weakly_supervise as a state       *)
(* machine over one matrix: the vectors and their associations are fixed   *)
(* at construction, the calls write the vectors' quality and quantity maps *)
(* and add the "prediction" column to the vectors' associations.           *)
(*                                                                         *)
(* Python floats are IEEE 754 binary64 numbers (magnitudes stay far from   *)
(* overflow and underflow); numpy.exp is not evaluated: a sigmoid value    *)
(* 1 / (1 + e^t) is kept as its exponent t.                                *)
(***************************************************************************)
EXTENDS Integers, Sequences, FiniteSets, TLC

VARIABLES vectors_noisy, vector_reference, records, outcome, first

vars == <<vectors_noisy, vector_reference, records, outcome, first>>

----------------------------------------------------------------------------
(* Floats: [nan, neg, bits]. A finite float is its sign and the set of the *)
(* exponents of the one bits of its magnitude: the value is the sum of 2^e *)
(* over e in bits, and bits spans at most Mantissa positions; zero has no  *)
(* bits. Every operation rounds the exact result to the nearest float,     *)
(* ties to even.                                                           *)

Mantissa == 53

\* Magnitudes as sets of exponents: S + T, S - T (for S >= T), S * T, S < T.
RECURSIVE Plus(_, _)
Plus(S, T) ==
    IF T = {} THEN S
    ELSE Plus((S \ T) \cup (T \ S), {e + 1 : e \in S \cap T})

RECURSIVE Minus(_, _)
Minus(S, T) ==
    IF T = {} THEN S
    ELSE Minus((S \ T) \cup (T \ S), {e + 1 : e \in T \ S})

RECURSIVE Times(_, _)
Times(S, T) ==
    IF S = {} THEN {}
    ELSE LET e == CHOOSE x \in S : TRUE
         IN  Plus({e + f : f \in T}, Times(S \ {e}, T))

Less(S, T) == \E e \in T \ S : \A f \in S \ T : f < e

\* The magnitude rounded to Mantissa bits: to nearest, ties to even.
Round(S) ==
    IF S = {} THEN {}
    ELSE LET top == CHOOSE e \in S : \A f \in S : f <= e
             cut == top - Mantissa
             kept == {e \in S : e > cut}
             up == /\ cut \in S
                   /\ (cut + 1 \in S \/ \E e \in S : e < cut)
         IN  IF up THEN Plus(kept, {cut + 1}) ELSE kept

NaN == [nan |-> TRUE, neg |-> FALSE, bits |-> {}]

Finite(neg, S) == [nan |-> FALSE, neg |-> neg /\ S # {}, bits |-> S]

\* floor(log2(n / d)), for n > 0 and d > 0.
RECURSIVE Log2(_, _)
Log2(n, d) ==
    IF n >= 2 * d THEN Log2(n, 2 * d) + 1
    ELSE IF n < d THEN Log2(2 * n, d) - 1
    ELSE 0

RECURSIVE Pow2(_)
Pow2(k) == IF k = 0 THEN 1 ELSE 2 * Pow2(k - 1)

\* The bits of r / d from position e down, `count` of them, and one more
\* below them when a remainder is left.
RECURSIVE Quotient(_, _, _, _)
Quotient(r, d, e, count) ==
    IF count = 0 THEN (IF r = 0 THEN {} ELSE {e})
    ELSE IF r >= d THEN {e} \cup Quotient(2 * (r - d), d, e - 1, count - 1)
    ELSE Quotient(2 * r, d, e - 1, count - 1)

\* n / d of two integers (n >= 0, d > 0), and the literal n/d in decimal.
Float(n, d) ==
    IF n = 0 THEN Finite(FALSE, {})
    ELSE LET e == Log2(n, d)
             r == IF e < 0 THEN n * Pow2(-e) ELSE n
             q == IF e > 0 THEN d * Pow2(e) ELSE d
         IN  Finite(FALSE, Round(Quotient(r, q, e, Mantissa + 1)))

Zero == Float(0, 1)
Half == Float(1, 2)
One == Float(1, 1)

Neg(x) == IF x.nan THEN NaN ELSE Finite(~x.neg, x.bits)

Add(x, y) ==
    IF x.nan \/ y.nan THEN NaN
    ELSE IF x.neg = y.neg THEN Finite(x.neg, Round(Plus(x.bits, y.bits)))
    ELSE IF Less(x.bits, y.bits) THEN Finite(y.neg, Round(Minus(y.bits, x.bits)))
    ELSE Finite(x.neg, Round(Minus(x.bits, y.bits)))

Sub(x, y) == Add(x, Neg(y))

Mul(x, y) ==
    IF x.nan \/ y.nan THEN NaN
    ELSE Finite(x.neg # y.neg,
                Round(IF Cardinality(x.bits) <= Cardinality(y.bits)
                      THEN Times(x.bits, y.bits) ELSE Times(y.bits, x.bits)))

\* x > y as Python compares floats: every comparison with NaN is false.
Gt(x, y) ==
    /\ ~x.nan
    /\ ~y.nan
    /\ IF x.neg # y.neg THEN y.neg
       ELSE IF x.neg THEN Less(x.bits, y.bits)
       ELSE Less(y.bits, x.bits)

\* 1 / (1 + numpy.exp(t)), kept symbolically.
OneOverOnePlusExp(t) == [exponent |-> t]

----------------------------------------------------------------------------
(* The data the matrix is built from.                                      *)

MaxAssoc == 3

Identifiers == <<"s1", "s2", "s3">>
DecimalIdentifiers == <<"s1", "s2", "s3", "s4">>
Records == {"r1", "r2"}
Labels == {"a", "b"}
NullLabel == "null"

None == <<>>
NoColumn == <<>>

Association(r, l, c) == [record |-> r, label |-> l, confidence |-> c]

\* Associations with and without a label, all of confidence 1.
LabelledAssociations ==
    {Association(r, l, One) : r \in Records, l \in Labels \cup {NullLabel}}

\* Labelled associations of confidence 1/2 and 1.
WeightedAssociations ==
    {Association(r, l, c) : r \in Records, l \in Labels, c \in {Half, One}}

\* Associations that may lack the label or the confidence.
NullableAssociations ==
    {Association(r, l, c) : r \in Records, l \in Labels, c \in {One, NaN}}
        \cup {Association(r, NullLabel, One) : r \in Records}

ReferenceAssociations == {Association(r, l, One) : r \in Records, l \in Labels}

SourceVector(id, assocs) ==
    [identifier |-> id, associations |-> assocs, prediction |-> NoColumn,
     quality |-> <<>>, quantity |-> <<>>]

is_empty(vector) == Len(vector.associations) = 0

NoReference == [present |-> FALSE, associations |-> <<>>]

\* The reference vectors that fit in what the noisy vectors left.
References(budget) ==
    {NoReference} \cup
    UNION {
        {[present |-> TRUE, associations |-> assocs] :
            assocs \in [1..k -> ReferenceAssociations]} :
        k \in 1..budget}

NoCall == [call |-> "none", raised |-> "", value |-> <<>>]
NotCalled == <<>>

\* A matrix as constructed from two or three noisy vectors and, possibly, a
\* reference vector, of at most MaxAssoc associations in all: the vectors in
\* the order given, no map computed yet.
NoisyLabelMatrix(identifiers, rows, with_reference, indexes) ==
    /\ \E k1 \in 0..MaxAssoc :
       \E k2 \in 0..(MaxAssoc - k1) :
       \E k3 \in IF Len(identifiers) = 3 THEN 0..(MaxAssoc - k1 - k2) ELSE {0} :
       \E list1 \in [1..k1 -> rows], list2 \in [1..k2 -> rows], list3 \in [1..k3 -> rows] :
         /\ vectors_noisy =
                [i \in 1..Len(identifiers) |->
                    SourceVector(identifiers[i], <<list1, list2, list3>>[i])]
         /\ vector_reference \in
                IF with_reference THEN References(MaxAssoc - k1 - k2 - k3)
                ELSE {NoReference}
    /\ records \in indexes
    /\ outcome = NoCall
    /\ first = [quality_metrics |-> NotCalled, quantity_metrics |-> NotCalled]

Init == NoisyLabelMatrix(<<"s1", "s2">>, LabelledAssociations, TRUE, {Records})

InitEnsemble ==
    NoisyLabelMatrix(Identifiers, WeightedAssociations, TRUE, {{"r1"}, Records})

InitQuantity == NoisyLabelMatrix(Identifiers, LabelledAssociations, FALSE, {Records})

InitNullable == NoisyLabelMatrix(<<"s1", "s2">>, NullableAssociations, TRUE, {Records})

\* Confidences written in decimals: 0.4, 0.5 and 0.9.
DecimalConfidences == {Float(2, 5), Float(1, 2), Float(9, 10)}

\* A matrix of four noisy vectors that each label r1, with a decimal
\* confidence, and r2, against a reference that has r1 as a and r2 as b.
InitDecimal ==
    /\ \E label \in [DOMAIN DecimalIdentifiers -> Labels],
          confidence \in [DOMAIN DecimalIdentifiers -> DecimalConfidences] :
         vectors_noisy =
            [i \in DOMAIN DecimalIdentifiers |->
                SourceVector(DecimalIdentifiers[i],
                             <<Association("r1", label[i], confidence[i]),
                               Association("r2", "b", One)>>)]
    /\ vector_reference =
            [present |-> TRUE,
             associations |-> <<Association("r1", "a", One),
                                Association("r2", "b", One)>>]
    /\ records = Records
    /\ outcome = NoCall
    /\ first = [quality_metrics |-> NotCalled, quantity_metrics |-> NotCalled]

----------------------------------------------------------------------------
(* Helpers over association tables (pandas columns).                       *)

Range(f) == {f[i] : i \in DOMAIN f}

\* Series.unique(): the values in order of first appearance.
RECURSIVE unique(_)
unique(s) ==
    IF s = <<>> THEN <<>>
    ELSE LET front == unique(SubSeq(s, 1, Len(s) - 1))
             last == s[Len(s)]
         IN  IF last \in Range(front) THEN front ELSE Append(front, last)

\* associations["label"].dropna().unique()
labels_dropna_unique(assocs) ==
    unique(SelectSeq([i \in DOMAIN assocs |-> assocs[i].label],
                     LAMBDA l : l # NullLabel))

\* A dict kept as its entries in insertion order, keyed by label_name.
HasKey(dict, key) == \E i \in DOMAIN dict : dict[i].label_name = key
Lookup(dict, key) == dict[CHOOSE i \in DOMAIN dict : dict[i].label_name = key]

----------------------------------------------------------------------------
(* quality_metrics                                                         *)

\* The rows of the inner join on "record": pairs <<reference row, noisy row>>.
df_inner_join(reference_assocs, noisy_assocs) ==
    {<<i, j>> \in (DOMAIN reference_assocs) \X (DOMAIN noisy_assocs) :
        reference_assocs[i].record = noisy_assocs[j].record}

\* Only the labels that occur in the join get an entry.
quality_of_joined_labels(reference_assocs, noisy_assocs) ==
    LET joined == df_inner_join(reference_assocs, noisy_assocs)
        noisy_labels == SelectSeq(labels_dropna_unique(noisy_assocs),
                            LAMBDA l : \E p \in joined : noisy_assocs[p[2]].label = l)
        df_grouped(label_name) ==
            {p \in joined : noisy_assocs[p[2]].label = label_name}
        true_positives(label_name) ==
            Cardinality({p \in df_grouped(label_name) :
                            reference_assocs[p[1]].label = noisy_assocs[p[2]].label})
    IN  [k \in DOMAIN noisy_labels |->
            [label_name |-> noisy_labels[k],
             true_positives |-> true_positives(noisy_labels[k]),
             false_positives |-> Cardinality(df_grouped(noisy_labels[k]))
                                    - true_positives(noisy_labels[k])]]

\* The quality dict of one non-empty noisy vector.
quality_of(reference_assocs, noisy_assocs) ==
    LET noisy_labels == labels_dropna_unique(noisy_assocs)
        joined == df_inner_join(reference_assocs, noisy_assocs)
        df_grouped(label_name) ==
            {p \in joined : noisy_assocs[p[2]].label = label_name}
        true_positives(label_name) ==
            Cardinality({p \in df_grouped(label_name) :
                            reference_assocs[p[1]].label = noisy_assocs[p[2]].label})
    IN  [k \in DOMAIN noisy_labels |->
            IF df_grouped(noisy_labels[k]) = {}
            THEN [label_name |-> noisy_labels[k],
                  true_positives |-> 0, false_positives |-> 0]
            ELSE [label_name |-> noisy_labels[k],
                  true_positives |-> true_positives(noisy_labels[k]),
                  false_positives |-> Cardinality(df_grouped(noisy_labels[k]))
                                        - true_positives(noisy_labels[k])]]

\* The counts of a pass are added to the counts the vector already holds.
quality_pass_merging(vectors, reference) ==
    [idx \in DOMAIN vectors |->
        IF ~is_empty(vectors[idx])
        THEN LET fresh == quality_of(reference.associations,
                                     vectors[idx].associations)
                 held == vectors[idx].quality
             IN  [vectors[idx] EXCEPT
                    !.quality =
                        [k \in DOMAIN fresh |->
                            IF HasKey(held, fresh[k].label_name)
                            THEN [fresh[k] EXCEPT
                                    !.true_positives =
                                        @ + Lookup(held, fresh[k].label_name).true_positives,
                                    !.false_positives =
                                        @ + Lookup(held, fresh[k].label_name).false_positives]
                            ELSE fresh[k]]]
        ELSE vectors[idx]]

\* The first loop: every non-empty vector gets a fresh quality dict.
quality_pass(vectors, reference) ==
    [idx \in DOMAIN vectors |->
        IF ~is_empty(vectors[idx])
        THEN [vectors[idx] EXCEPT
                !.quality = quality_of(reference.associations,
                                       vectors[idx].associations)]
        ELSE vectors[idx]]

calc_precision(row) ==
    LET sum_positives == row.true_positives + row.false_positives
    IN  IF sum_positives = 0 THEN Zero
        ELSE Float(row.true_positives, sum_positives)

\* The flattened table: one row per vector and key of its quality dict.
RECURSIVE quality_statistics(_)
quality_statistics(vectors) ==
    IF vectors = <<>> THEN <<>>
    ELSE LET vector_noisy == vectors[Len(vectors)]
         IN  quality_statistics(SubSeq(vectors, 1, Len(vectors) - 1)) \o
             [k \in DOMAIN vector_noisy.quality |->
                [identifier |-> vector_noisy.identifier,
                 label_name |-> vector_noisy.quality[k].label_name,
                 true_positives |-> vector_noisy.quality[k].true_positives,
                 false_positives |-> vector_noisy.quality[k].false_positives,
                 precision |-> calc_precision(vector_noisy.quality[k])]]

QualityMaps(vectors) == [i \in DOMAIN vectors |-> vectors[i].quality]
QuantityMaps(vectors) == [i \in DOMAIN vectors |-> vectors[i].quantity]

Returned(call, value) == [call |-> call, raised |-> "", value |-> value]
Raised(call, exception) == [call |-> call, raised |-> exception, value |-> <<>>]

\* The first outcome of a call and the maps it left, kept for comparison.
Remember(call, result, maps) ==
    IF first[call] = NotCalled
    THEN [first EXCEPT ![call] =
            <<[outcome |-> result, maps |-> maps, again |-> FALSE]>>]
    ELSE [first EXCEPT ![call][1].again = TRUE]

quality_metrics ==
    /\ IF ~vector_reference.present
       THEN /\ outcome' = Raised("quality_metrics", "MissingReference")
            /\ vectors_noisy' = vectors_noisy
       ELSE /\ vectors_noisy' = quality_pass(vectors_noisy, vector_reference)
            /\ outcome' = Returned("quality_metrics",
                                   quality_statistics(vectors_noisy'))
    /\ first' = Remember("quality_metrics", outcome', QualityMaps(vectors_noisy'))
    /\ UNCHANGED <<vector_reference, records>>

----------------------------------------------------------------------------
(* quantity_metrics                                                        *)

\* pd.concat of the vectors' associations, each row tagged with its source.
RECURSIVE df_concat(_)
df_concat(vectors) ==
    IF vectors = <<>> THEN <<>>
    ELSE LET vector == vectors[Len(vectors)]
         IN  df_concat(SubSeq(vectors, 1, Len(vectors) - 1)) \o
             [i \in DOMAIN vector.associations |->
                [record |-> vector.associations[i].record,
                 label |-> vector.associations[i].label,
                 source |-> vector.identifier]]

\* groupby("source") visits the sources that have rows, in sorted order.
sources_sorted(concat) ==
    SelectSeq(Identifiers, LAMBDA id : \E i \in DOMAIN concat : concat[i].source = id)

record_coverage(df_source, label) ==
    Cardinality({i \in DOMAIN df_source : df_source[i].label = label})

\* The label of the first row the source has for the record.
row_source_label(df_source, record_id) ==
    LET at == {i \in DOMAIN df_source : df_source[i].record = record_id}
    IN  df_source[CHOOSE i \in at : \A j \in at : i <= j].label

\* labels.unique() of one group of df_others.groupby("record")["label"].
labels_unique(df_others, record_id) ==
    {df_others[i].label : i \in {j \in DOMAIN df_others :
                                    df_others[j].record = record_id}}

\* One credit for every row of another source, not one for every record.
source_overlaps_per_row(df_source, df_others, label) ==
    Cardinality({i \in DOMAIN df_others :
        /\ row_source_label(df_source, df_others[i].record) = label
        /\ df_others[i].label = label})

source_overlaps(df_source, df_others, label) ==
    Cardinality({record_id \in {df_others[i].record : i \in DOMAIN df_others} :
        /\ row_source_label(df_source, record_id) = label
        /\ label \in labels_unique(df_others, record_id)})

source_conflicts(df_source, df_others, label) ==
    Cardinality({record_id \in {df_others[i].record : i \in DOMAIN df_others} :
        /\ row_source_label(df_source, record_id) = label
        /\ \/ Cardinality(labels_unique(df_others, record_id)) > 1
           \/ (CHOOSE l \in labels_unique(df_others, record_id) : TRUE) # label})

\* One pass of the loop over the sources: the quantity dict of `source`, or
\* a KeyError when the source's first label on a shared record is null (the
\* dict has no entry for it).
quantity_of(source, concat) ==
    LET df_source == SelectSeq(concat, LAMBDA row : row.source = source)
        source_records == {df_source[i].record : i \in DOMAIN df_source}
        df_others == SelectSeq(concat, LAMBDA row :
                        row.source # source /\ row.record \in source_records)
        labels == labels_dropna_unique(df_source)
    IN  [raised |->
            \E record_id \in {df_others[i].record : i \in DOMAIN df_others} :
                row_source_label(df_source, record_id) = NullLabel,
         quantity |->
            [k \in DOMAIN labels |->
                [label_name |-> labels[k],
                 record_coverage |-> record_coverage(df_source, labels[k]),
                 source_overlaps |-> source_overlaps(df_source, df_others, labels[k]),
                 source_conflicts |-> source_conflicts(df_source, df_others, labels[k])]]]

\* The loop over the sources; a KeyError leaves the later sources unwritten.
RECURSIVE quantity_pass(_, _, _)
quantity_pass(vectors, concat, sources) ==
    IF sources = <<>> THEN [raised |-> FALSE, vectors |-> vectors]
    ELSE LET computed == quantity_of(Head(sources), concat)
         IN  IF computed.raised THEN [raised |-> TRUE, vectors |-> vectors]
             ELSE quantity_pass(
                    [idx \in DOMAIN vectors |->
                        IF vectors[idx].identifier = Head(sources)
                        THEN [vectors[idx] EXCEPT !.quantity = computed.quantity]
                        ELSE vectors[idx]],
                    concat, Tail(sources))

RECURSIVE quantity_statistics(_)
quantity_statistics(vectors) ==
    IF vectors = <<>> THEN <<>>
    ELSE LET vector_noisy == vectors[Len(vectors)]
         IN  quantity_statistics(SubSeq(vectors, 1, Len(vectors) - 1)) \o
             [k \in DOMAIN vector_noisy.quantity |->
                [identifier |-> vector_noisy.identifier,
                 label_name |-> vector_noisy.quantity[k].label_name,
                 record_coverage |-> vector_noisy.quantity[k].record_coverage,
                 source_conflicts |-> vector_noisy.quantity[k].source_conflicts,
                 source_overlaps |-> vector_noisy.quantity[k].source_overlaps]]

quantity_metrics ==
    /\ LET concat == df_concat(vectors_noisy)
           pass == quantity_pass(vectors_noisy, concat, sources_sorted(concat))
       IN  /\ vectors_noisy' = pass.vectors
           /\ outcome' = IF pass.raised
                         THEN Raised("quantity_metrics", "KeyError")
                         ELSE Returned("quantity_metrics",
                                       quantity_statistics(pass.vectors))
    /\ first' = Remember("quantity_metrics", outcome', QuantityMaps(vectors_noisy'))
    /\ UNCHANGED <<vector_reference, records>>

----------------------------------------------------------------------------
(* weakly_supervise                                                        *)

\* stats_lkp: the (identifier, label_name) keys and their precision.
in_stats_lkp(stats_df, identifier, label) ==
    \E i \in DOMAIN stats_df :
        stats_df[i].identifier = identifier /\ stats_df[i].label_name = label

\* Every vote counted at full weight.
stats_lkp_unweighted(stats_df, identifier, label) == One

stats_lkp_precision(stats_df, identifier, label) ==
    stats_df[CHOOSE i \in DOMAIN stats_df :
        stats_df[i].identifier = identifier /\ stats_df[i].label_name = label].precision

\* A confidence column holding nulls only keeps them as None objects; with
\* a number in the column the nulls are float NaN.
confidence_is_None(assocs) == \A i \in DOMAIN assocs : assocs[i].confidence.nan

\* The exception of the lambda on one row: the lookup comes before the product.
prediction_raises(stats_df, identifier, assocs, i) ==
    IF ~in_stats_lkp(stats_df, identifier, assocs[i].label) THEN "KeyError"
    ELSE IF confidence_is_None(assocs) THEN "TypeError"
    ELSE ""

\* vector_df.apply(lambda x: [label, precision * confidence], axis=1)
prediction_of(stats_df, identifier, assocs) ==
    LET failing == {i \in DOMAIN assocs :
                        prediction_raises(stats_df, identifier, assocs, i) # ""}
    IN  IF failing # {}
        THEN [raised |-> prediction_raises(stats_df, identifier, assocs,
                            CHOOSE i \in failing : \A j \in failing : i <= j),
              prediction |-> NoColumn]
        ELSE [raised |-> "",
              prediction |->
                [i \in DOMAIN assocs |->
                    <<assocs[i].label,
                      Mul(stats_lkp_precision(stats_df, identifier, assocs[i].label),
                          assocs[i].confidence)>>]]

\* cnlm_df[identifier] = vector_series: the series is aligned with the frame's
\* record index, which pandas refuses when the series index has duplicates.
has_duplicate_records(assocs) ==
    \E i, j \in DOMAIN assocs : i # j /\ assocs[i].record = assocs[j].record

NoVote == <<>>

vector_series_cell(assocs, prediction, record) ==
    IF \E i \in DOMAIN assocs : assocs[i].record = record
    THEN prediction[CHOOSE i \in DOMAIN assocs : assocs[i].record = record]
    ELSE NoVote

\* The loop over the vectors from position idx on; columns is cnlm_df so far.
RECURSIVE prediction_pass(_, _, _, _, _)
prediction_pass(vectors, index, stats_df, idx, columns) ==
    IF idx > Len(vectors)
    THEN [raised |-> "", vectors |-> vectors, columns |-> columns]
    ELSE LET vector == vectors[idx]
             applied == prediction_of(stats_df, vector.identifier, vector.associations)
             with_column == [vectors EXCEPT ![idx].prediction = applied.prediction]
         IN  IF is_empty(vector)
             THEN prediction_pass(vectors, index, stats_df, idx + 1, columns)
             ELSE IF applied.raised # ""
             THEN [raised |-> applied.raised, vectors |-> vectors, columns |-> columns]
             ELSE IF has_duplicate_records(vector.associations)
             THEN [raised |-> "ValueError", vectors |-> with_column, columns |-> columns]
             ELSE prediction_pass(with_column, index, stats_df, idx + 1,
                    Append(columns,
                        [record \in index |->
                            vector_series_cell(vector.associations,
                                               applied.prediction, record)]))

\* The logistic function with its midpoint at 0.
sigmoid_unshifted(x) == OneOverOnePlusExp(Neg(x))

sigmoid(x) ==
    LET c == One
        k == One
    IN  OneOverOnePlusExp(Add(Mul(Neg(c), x), k))

\* voters: a defaultdict(float) as its entries in insertion order.
RECURSIVE voters_of(_)
voters_of(row) ==
    IF row = <<>> THEN <<>>
    ELSE LET voters == voters_of(SubSeq(row, 1, Len(row) - 1))
             pair_or_empty == row[Len(row)]
         IN  IF pair_or_empty = NoVote THEN voters
             ELSE IF \E i \in DOMAIN voters : voters[i].label_name = pair_or_empty[1]
             THEN [i \in DOMAIN voters |->
                    IF voters[i].label_name = pair_or_empty[1]
                    THEN [voters[i] EXCEPT !.vote = Add(@, pair_or_empty[2])]
                    ELSE voters[i]]
             ELSE Append(voters, [label_name |-> pair_or_empty[1],
                                  vote |-> Add(Zero, pair_or_empty[2])])

\* max(voters, key=voters.get): the first key no later key is greater than.
RECURSIVE max_of(_)
max_of(voters) ==
    IF Len(voters) = 1 THEN voters[1]
    ELSE LET best == max_of(SubSeq(voters, 1, Len(voters) - 1))
         IN  IF Gt(voters[Len(voters)].vote, best.vote)
             THEN voters[Len(voters)] ELSE best

RECURSIVE sum_of(_)
sum_of(voters) ==
    IF voters = <<>> THEN Zero
    ELSE Add(sum_of(SubSeq(voters, 1, Len(voters) - 1)), voters[Len(voters)].vote)

ensemble(row) ==
    LET voters == voters_of(row)
        max_voter == max_of(voters).label_name
        sum_votes == sum_of(voters)
        max_vote == max_of(voters).vote
        confidence == Sub(max_vote, Sub(sum_votes, max_vote))
    IN  IF Gt(confidence, Zero)
        THEN <<max_voter, sigmoid(confidence)>>
        ELSE None

\* The rows that abstain are dropped from the result.
cnlm_apply_dropping_none(index, columns) ==
    LET kept == {record \in index :
                    /\ \E n \in DOMAIN columns : columns[n][record] # NoVote
                    /\ ensemble([n \in DOMAIN columns |-> columns[n][record]]) # None}
    IN  [record \in kept |->
            ensemble([n \in DOMAIN columns |-> columns[n][record]])]

\* The rows without a vote are kept, and abstain.
cnlm_apply_all_rows(index, columns) ==
    [record \in index |->
        IF \E n \in DOMAIN columns : columns[n][record] # NoVote
        THEN ensemble([n \in DOMAIN columns |-> columns[n][record]])
        ELSE None]

\* cnlm_df without the rows that are null in every column, reduced row by row.
cnlm_apply(index, columns) ==
    LET kept == {record \in index :
                    \E n \in DOMAIN columns : columns[n][record] # NoVote}
    IN  [record \in kept |->
            ensemble([n \in DOMAIN columns |-> columns[n][record]])]

\* The whole call: what it raises or returns, and the vectors it leaves.
weakly_supervise_run(vectors, reference, index) ==
    IF ~reference.present
    THEN [outcome |-> Raised("weakly_supervise", "MissingReference"),
          vectors |-> vectors]
    ELSE LET scored == quality_pass(vectors, reference)
             stats_df == quality_statistics(scored)
             pass == prediction_pass(scored, index, stats_df, 1, <<>>)
         IN  IF Len(stats_df) = 0
             THEN [outcome |-> Raised("weakly_supervise", "EmptyStatistics"),
                   vectors |-> scored]
             ELSE IF pass.raised # ""
             THEN [outcome |-> Raised("weakly_supervise", pass.raised),
                   vectors |-> pass.vectors]
             ELSE [outcome |-> Returned("weakly_supervise",
                                        cnlm_apply(index, pass.columns)),
                   vectors |-> pass.vectors]

weakly_supervise ==
    /\ LET run == weakly_supervise_run(vectors_noisy, vector_reference, records)
       IN  /\ outcome' = run.outcome
           /\ vectors_noisy' = run.vectors
    /\ UNCHANGED <<vector_reference, records, first>>

Next ==
    \/ weakly_supervise
    \/ quality_metrics
    \/ quantity_metrics



Spec == Init /\ [][Next]_vars

SpecEnsemble == InitEnsemble /\ [][weakly_supervise]_vars

SpecQuantity == InitQuantity /\ [][quantity_metrics]_vars

SpecNullable == InitNullable /\ [][Next]_vars

SpecDecimal == InitDecimal /\ [][weakly_supervise]_vars

----------------------------------------------------------------------------
(* What the claims speak of, stated over the state a call leaves.          *)

WsCalled == outcome.call = "weakly_supervise"
WsReturned == WsCalled /\ outcome.raised = ""
result == outcome.value

AllLabels == Labels \cup {NullLabel}

\* precision[(source, label)] as the vector's quality map gives it.
PrecisionOf(vector, label) ==
    IF \E k \in DOMAIN vector.quality : vector.quality[k].label_name = label
    THEN LET q == vector.quality[CHOOSE k \in DOMAIN vector.quality :
                                    vector.quality[k].label_name = label]
         IN  IF q.true_positives + q.false_positives = 0 THEN Zero
             ELSE Float(q.true_positives, q.true_positives + q.false_positives)
    ELSE Zero

\* The weighted votes rows 1..j of a vector give the label on the record.
RECURSIVE VoteOfRows(_, _, _, _)
VoteOfRows(vector, j, record, label) ==
    IF j = 0 THEN Zero
    ELSE Add(VoteOfRows(vector, j - 1, record, label),
             IF /\ vector.associations[j].record = record
                /\ vector.associations[j].label = label
             THEN Mul(PrecisionOf(vector, label), vector.associations[j].confidence)
             ELSE Zero)

\* votes[label] of the record, over the noisy vectors 1..i.
RECURSIVE VotesUpTo(_, _, _)
VotesUpTo(i, record, label) ==
    IF i = 0 THEN Zero
    ELSE Add(VotesUpTo(i - 1, record, label),
             VoteOfRows(vectors_noisy[i], Len(vectors_noisy[i].associations),
                        record, label))

Votes(record, label) == VotesUpTo(Len(vectors_noisy), record, label)

VotedLabels(record) ==
    {l \in AllLabels :
        \E i \in DOMAIN vectors_noisy : \E j \in DOMAIN vectors_noisy[i].associations :
            /\ vectors_noisy[i].associations[j].record = record
            /\ vectors_noisy[i].associations[j].label = l}

HasVote(record) == VotedLabels(record) # {}

RECURSIVE SumVotes(_, _)
SumVotes(record, labels) ==
    IF labels = {} THEN Zero
    ELSE LET l == CHOOSE x \in labels : TRUE
         IN  Add(Votes(record, l), SumVotes(record, labels \ {l}))

LargestLabels(record) ==
    LET votes == [l \in VotedLabels(record) |-> Votes(record, l)]
    IN  {l \in DOMAIN votes : \A m \in DOMAIN votes : ~Gt(votes[m], votes[l])}

\* margin = 2 * votes[max_label] - sum of all votes
Margin(record) ==
    LET max_label == CHOOSE l \in LargestLabels(record) : TRUE
        max_vote == Votes(record, max_label)
    IN  Sub(Add(max_vote, max_vote), SumVotes(record, VotedLabels(record)))

\* 1 / (1 + e^t) > 1/2 exactly when t < 0.
AboveHalf(p) == Gt(Zero, p.exponent)

----------------------------------------------------------------------------
(* C1 *)

\* C1, as claimed: every emitted confidence is 1 / (1 + e^(-margin)) of the
\* record's margin, and so is greater than 0.5.
C1_ConfidenceIsLogisticAboveHalf ==
    WsReturned =>
        \A r \in DOMAIN result :
            result[r] # None =>
                /\ result[r][2] = OneOverOnePlusExp(Neg(Margin(r)))
                /\ AboveHalf(result[r][2])

\* C1, amended: every emitted confidence is 1 / (1 + e^(1 - margin)), the
\* logistic function with its midpoint at margin 1: it is greater than
\* 1 / (1 + e), and greater than 0.5 exactly when the margin is greater than 1.
C1_ConfidenceIsLogisticShiftedByOne ==
    WsReturned =>
        \A r \in DOMAIN result :
            result[r] # None =>
                LET margin == Margin(r)
                IN  /\ result[r][2] = OneOverOnePlusExp(Sub(One, margin))
                    /\ Gt(One, result[r][2].exponent)
                    /\ AboveHalf(result[r][2]) <=> Gt(margin, One)

\* A label emitted on a margin in (0, 1].
C1_Witness ==
    /\ WsReturned
    /\ \E r \in DOMAIN result :
        result[r] # None /\ Gt(Margin(r), Zero) /\ ~Gt(Margin(r), One)

----------------------------------------------------------------------------
(* C2 *)

\* Two sources of precision 0.8 for spam and one of precision 0.5 for ham,
\* all of confidence 1, reduced by ensemble.
SpamHamExample ==
    LET row == <<<<"spam", Mul(Float(4, 5), One)>>, <<"spam", Mul(Float(4, 5), One)>>,
                 <<"ham", Mul(Float(1, 2), One)>>>>
    IN  ensemble(row) = <<"spam", sigmoid(Float(11, 10))>>

\* C2: a record with a vote gets a label of the largest accumulated vote
\* exactly when margin = 2 * votes[max_label] - sum(votes) is positive, and
\* abstains otherwise; votes of 0.8 and 0.8 for spam and 0.5 for ham give
\* spam on the margin 1.1.
C2_DecisionRule ==
    /\ WsReturned =>
        \A r \in records :
            HasVote(r) =>
                /\ r \in DOMAIN result
                /\ IF Gt(Margin(r), Zero)
                   THEN result[r] # None /\ result[r][1] \in LargestLabels(r)
                   ELSE result[r] = None
    /\ SpamHamExample

\* A label won against another voted label.
C2_Witness ==
    /\ WsReturned
    /\ \E r \in DOMAIN result :
        result[r] # None /\ Cardinality(VotedLabels(r)) = 2

----------------------------------------------------------------------------
(* C3 *)

\* C3, as claimed: a record with votes whose margin is <= 0 has no entry in
\* the result.
C3_AbstainingRecordIsAbsent ==
    WsReturned =>
        \A r \in records :
            (HasVote(r) /\ ~Gt(Margin(r), Zero)) => r \notin DOMAIN result

\* C3, amended: a record with votes whose margin is <= 0 has an entry in the
\* result, and the entry is null (no label, no confidence).
C3_AbstainingRecordIsNull ==
    WsReturned =>
        \A r \in records :
            (HasVote(r) /\ ~Gt(Margin(r), Zero)) =>
                r \in DOMAIN result /\ result[r] = None

\* Two labels with equal votes on a record.
C3_Witness ==
    /\ WsReturned
    /\ \E r \in records :
        /\ Cardinality(VotedLabels(r)) = 2
        /\ \A l \in VotedLabels(r) : l \in LargestLabels(r)

----------------------------------------------------------------------------
(* C4 *)

----------------------------------------------------------------------------
(* C5 *)

WithNeutralConfidence(vectors) ==
    [i \in DOMAIN vectors |->
        [vectors[i] EXCEPT !.associations =
            [j \in DOMAIN vectors[i].associations |->
                IF vectors[i].associations[j].confidence.nan
                THEN [vectors[i].associations[j] EXCEPT !.confidence = One]
                ELSE vectors[i].associations[j]]]]

\* C5: weakly_supervise ends as it would with every null confidence
\* replaced by 1.
C5_NullConfidenceIsNeutral ==
    WsCalled =>
        outcome = weakly_supervise_run(WithNeutralConfidence(vectors_noisy),
                                       vector_reference, records).outcome

----------------------------------------------------------------------------
(* C6 *)

Untouched(before, after) ==
    \A i \in DOMAIN before :
        /\ after[i].quality = before[i].quality
        /\ after[i].associations = before[i].associations
        /\ after[i].prediction = before[i].prediction

\* C6: a call that fails for a missing reference, an empty quality table or
\* a missing precision leaves every vector's quality map and associations
\* as they were.
C6_FailingCallChangesNothing ==
    [][(/\ outcome'.call \in {"quality_metrics", "weakly_supervise"}
        /\ outcome'.raised \in {"MissingReference", "EmptyStatistics", "KeyError"})
            => Untouched(vectors_noisy, vectors_noisy')]_vars

----------------------------------------------------------------------------
(* C7 *)

NoOverlap ==
    \A i \in DOMAIN vectors_noisy :
        \A j \in DOMAIN vectors_noisy[i].associations :
            \A k \in DOMAIN vector_reference.associations :
                vectors_noisy[i].associations[j].record
                    # vector_reference.associations[k].record

NoLabel ==
    \A i \in DOMAIN vectors_noisy :
        \A j \in DOMAIN vectors_noisy[i].associations :
            vectors_noisy[i].associations[j].label = NullLabel

\* C7, as claimed: when no noisy source shares a record with the reference,
\* weakly_supervise fails with the empty-statistics error.
C7_NoOverlapRaisesEmptyStatistics ==
    (WsCalled /\ vector_reference.present /\ NoOverlap) =>
        outcome.raised = "EmptyStatistics"

\* C7, amended: with a reference, weakly_supervise fails with the
\* empty-statistics error exactly when no noisy source has an association
\* with a label; sources that share no record with the reference have
\* precision 0, and a result they give holds no label.
C7_NoLabelRaisesEmptyStatistics ==
    (WsCalled /\ vector_reference.present) =>
        /\ outcome.raised = "EmptyStatistics" <=> NoLabel
        /\ (NoOverlap /\ outcome.raised = "") =>
                \A r \in DOMAIN result : result[r] = None

\* A result returned though no source shares a record with the reference.
C7_Witness ==
    /\ WsReturned
    /\ vector_reference.present
    /\ NoOverlap
    /\ DOMAIN result # {}

----------------------------------------------------------------------------
(* C8 *)

RECURSIVE SumField(_, _)
SumField(counts, k) ==
    IF k = 0 THEN 0 ELSE counts[k] + SumField(counts, k - 1)

RecordsOf(vector) ==
    {vector.associations[j].record : j \in DOMAIN vector.associations}

\* C8: in every quantity map, overlaps and conflicts of a label are at most
\* its coverage, and a record is credited at most once.
C8_OverlapsAndConflictsWithinCoverage ==
    \A i \in DOMAIN vectors_noisy :
        LET quantity == vectors_noisy[i].quantity
        IN  /\ \A k \in DOMAIN quantity :
                /\ quantity[k].source_overlaps <= quantity[k].record_coverage
                /\ quantity[k].source_conflicts <= quantity[k].record_coverage
            /\ SumField([k \in DOMAIN quantity |-> quantity[k].source_overlaps],
                        Len(quantity)) <= Cardinality(RecordsOf(vectors_noisy[i]))
            /\ SumField([k \in DOMAIN quantity |-> quantity[k].source_conflicts],
                        Len(quantity)) <= Cardinality(RecordsOf(vectors_noisy[i]))

\* A source with two labels on one record, credited with an overlap.
C8_Witness ==
    /\ outcome.call = "quantity_metrics"
    /\ outcome.raised = ""
    /\ \E i \in DOMAIN vectors_noisy :
        /\ \E j, k \in DOMAIN vectors_noisy[i].associations :
            /\ vectors_noisy[i].associations[j].record
                = vectors_noisy[i].associations[k].record
            /\ vectors_noisy[i].associations[j].label
                # vectors_noisy[i].associations[k].label
        /\ \E k \in DOMAIN vectors_noisy[i].quantity :
            vectors_noisy[i].quantity[k].source_overlaps = 1

----------------------------------------------------------------------------
(* C9 *)

MapsOf(call) ==
    IF call = "quality_metrics" THEN QualityMaps(vectors_noisy)
    ELSE QuantityMaps(vectors_noisy)

\* C9: whatever was called before, quality_metrics (quantity_metrics) ends
\* as its first call ended and leaves the maps its first call left.
C9_RecomputationIsIdempotent ==
    \A call \in {"quality_metrics", "quantity_metrics"} :
        outcome.call = call =>
            /\ first[call] # NotCalled
            /\ outcome = first[call][1].outcome
            /\ MapsOf(call) = first[call][1].maps

\* A repeated quality_metrics with a table to return, after quantity_metrics
\* and weakly_supervise have run.
C9_Witness ==
    /\ outcome.call = "quality_metrics"
    /\ outcome.raised = ""
    /\ Len(outcome.value) > 0
    /\ first["quality_metrics"][1].again
    /\ first["quantity_metrics"] # NotCalled
    /\ \E i \in DOMAIN vectors_noisy : vectors_noisy[i].prediction # NoColumn

----------------------------------------------------------------------------
(* C10 *)

Orderings(n) == {p \in [1..n -> 1..n] : \A i, j \in 1..n : p[i] = p[j] => i = j}

Decisions(value) ==
    [r \in DOMAIN value |-> IF value[r] = None THEN "abstain" ELSE value[r][1]]

\* C10: a record whose largest vote is shared by two labels abstains, and
\* the decisions are the same for every ordering of the noisy vectors.
C10_TieBreakIsNotObservable ==
    WsReturned =>
        /\ \A r \in DOMAIN result :
            Cardinality(LargestLabels(r)) >= 2 => result[r] = None
        /\ \A p \in Orderings(Len(vectors_noisy)) :
            LET reordered == [i \in DOMAIN vectors_noisy |-> vectors_noisy[p[i]]]
                run == weakly_supervise_run(reordered, vector_reference, records)
            IN  /\ run.outcome.raised = ""
                /\ Decisions(run.outcome.value) = Decisions(result)

====
